---- MODULE Spec2Model ----
(***************************************************************************)
(* A model of ncdownloader.py: the recursive PROPFIND walk of a share, the *)
(* reconciliation of the listing with the local output directory and the   *)
(* sequential download loop.                                               *)
(*                                                                         *)
(* Strings are sequences of one-character strings, so that slicing,        *)
(* joining, percent-decoding and glob matching are computed, not assumed.  *)
(*                                                                         *)
(* A behaviour is a succession of runs of the program over the same local  *)
(* files.  The remote host is the environment: it serves a share that is a *)
(* tree, answers a listing with 207 and the directory's entries or with an *)
(* error status or a body that does not parse, and ends the stream of a    *)
(* download after any number of the file's bytes.  A GET either advertises *)
(* the file's size or no length at all.                                    *)
(*                                                                         *)
(* Not modelled: the splitting of the URL (the walk starts at '/'), the    *)
(* display-only fields lastmodified and contenttype, the progress bar, and *)
(* exceptions of the transport or the file system.  os.makedirs is part of *)
(* the write: a directory exists exactly when a file lies inside it.       *)
(***************************************************************************)
EXTENDS Integers, Sequences, FiniteSets, TLC

VARIABLES
    tree,       \* the share: [depth, shape, lengths], fixed during a behaviour
    output,     \* args.output
    fs,         \* the local regular files: path -> size in bytes
    extra,      \* the output directory holds an entry unrelated to the share
    args,       \* [resume, yes, glob] of the current run
    pc,         \* position of main() in the current run
    stack,      \* active walk_dir frames, innermost last: [items, files]
    requests,   \* PROPFIND requests issued in this run: [path, status]
    plan,       \* [new, mismatched, existing] as returned by get_file_lists
    idx,        \* number of download_file calls main's loop has made
    attempted,  \* download_file calls of this run: [path, dest, total, written, raised]
    err,        \* the exception that reached the top-level handler, or NoErr
    out,        \* the last message main() printed before returning
    fs0,        \* fs as it was when the current run started
    errlog,     \* exceptions observed over the runs so far: [cond, cls]
    qpath,      \* destination computation on its own: a remote path,
    qroot,      \*   an output root,
    qdest       \*   and the destination computed for them (or NoDest)

vars == <<tree, output, fs, extra, args, pc, stack, requests, plan, idx,
          attempted, err, out, fs0, errlog, qpath, qroot, qdest>>

runvars == <<tree, output, fs, extra, args, pc, stack, requests, plan, idx,
             attempted, err, out, fs0>>

----------------------------------------------------------------------------
(* Bounds of the model *)

MaxDepth == 2

MaxSize == 2

MaxSegments == 3

----------------------------------------------------------------------------
(* Program constants *)

CODE_SUCCESS == 207

----------------------------------------------------------------------------
(* Strings *)

EndsWithSlash(p) == Len(p) > 0 /\ p[Len(p)] = "/"

StartsWithSlash(p) == Len(p) > 0 /\ p[1] = "/"

\* p[1:]
DropFirst(p) == SubSeq(p, 2, Len(p))

\* code points of the characters that occur in the model's strings
Ord(c) ==
    CASE c = " "  -> 32
      [] c = "\"" -> 34
      [] c = "%"  -> 37
      [] c = "*"  -> 42
      [] c = "."  -> 46
      [] c = "/"  -> 47
      [] c = "0"  -> 48
      [] c = "2"  -> 50
      [] c = "?"  -> 63
      [] c = "E"  -> 69
      [] c = "F"  -> 70
      [] c = "o"  -> 111
      [] c = "s"  -> 115
      [] c = "t"  -> 116
      [] c = "x"  -> 120
      [] c = "y"  -> 121
      [] c = "z"  -> 122

\* str.__lt__: lexicographic by code point
RECURSIVE StrLess(_, _)
StrLess(a, b) ==
    IF b = <<>> THEN FALSE
    ELSE IF a = <<>> THEN TRUE
    ELSE IF Ord(a[1]) # Ord(b[1]) THEN Ord(a[1]) < Ord(b[1])
    ELSE StrLess(Tail(a), Tail(b))

\* the hexadecimal digits among those characters
IsHex(c) == c \in {"0", "2", "E", "F"}

HexVal(c) ==
    CASE c = "0" -> 0
      [] c = "2" -> 2
      [] c = "E" -> 14
      [] c = "F" -> 15

\* bytes([n]).decode('utf-8', 'replace') for the bytes two such digits can
\* spell: an ASCII byte is its character; 0xE0..0xFF start a multi-byte
\* sequence that no continuation byte (0x80..0xBF) can follow here, so each
\* decodes to U+FFFD
Chr(n) ==
    CASE n = 0  -> "\\x00"
      [] n = 2  -> "\\x02"
      [] n = 14 -> "\\x0e"
      [] n = 15 -> "\\x0f"
      [] n = 32 -> " "
      [] n = 34 -> "\""
      [] n = 46 -> "."
      [] n = 47 -> "/"
      [] OTHER  -> "U+FFFD"

\* urllib.parse.unquote: %XX with two hex digits is decoded, any other '%'
\* is kept
RECURSIVE Unquote(_)
Unquote(s) ==
    IF s = <<>> THEN <<>>
    ELSE IF s[1] = "%" /\ Len(s) >= 3 /\ IsHex(s[2]) /\ IsHex(s[3])
         THEN <<Chr(16 * HexVal(s[2]) + HexVal(s[3]))>> \o Unquote(SubSeq(s, 4, Len(s)))
         ELSE <<s[1]>> \o Unquote(Tail(s))

\* os.path.join(a, b) on POSIX
Join(a, b) ==
    IF StartsWithSlash(b) THEN b
    ELSE IF a = <<>> \/ EndsWithSlash(a) THEN a \o b
    ELSE a \o <<"/">> \o b

\* x['dest'] = urllib.parse.unquote(os.path.join(args.output, x['path'][1:]))
Dest(root, path) == Unquote(Join(root, DropFirst(path)))

----------------------------------------------------------------------------
(* Path resolution, as the operating system does it when a path is opened *)

\* the components of p between separators
RECURSIVE Split(_)
Split(p) ==
    IF \A i \in 1..Len(p) : p[i] # "/" THEN <<p>>
    ELSE LET k == CHOOSE i \in 1..Len(p) :
                      p[i] = "/" /\ \A j \in 1..(i - 1) : p[j] # "/"
         IN  <<SubSeq(p, 1, k - 1)>> \o Split(SubSeq(p, k + 1, Len(p)))

\* empty and '.' components are skipped, '..' steps up (never above '/')
RECURSIVE Resolve(_, _, _)
Resolve(comps, abs, acc) ==
    IF comps = <<>> THEN acc
    ELSE LET c == Head(comps) IN
         IF c = <<>> \/ c = <<".">> THEN Resolve(Tail(comps), abs, acc)
         ELSE IF c = <<".", ".">> THEN
              IF acc # <<>> /\ acc[Len(acc)] # <<".", ".">>
              THEN Resolve(Tail(comps), abs, SubSeq(acc, 1, Len(acc) - 1))
              ELSE IF abs THEN Resolve(Tail(comps), abs, acc)
              ELSE Resolve(Tail(comps), abs, Append(acc, c))
         ELSE Resolve(Tail(comps), abs, Append(acc, c))

Location(p) == [abs |-> StartsWithSlash(p),
                comps |-> Resolve(Split(p), StartsWithSlash(p), <<>>)]

\* the location of p lies strictly inside the directory dir
Inside(dir, p) ==
    LET d == Location(dir)
        q == Location(p)
    IN  /\ d.abs = q.abs
        /\ Len(q.comps) > Len(d.comps)
        /\ SubSeq(q.comps, 1, Len(d.comps)) = d.comps
        /\ q.comps[Len(d.comps) + 1] # <<".", ".">>

----------------------------------------------------------------------------
(* Destination computation on its own *)

NoDest == <<"<none>">>

\* path segments a listing may name: plain and percent-encoded names, '..'
\* plain and encoded, an empty segment, an encoded separator
Segments == {<<"x">>, <<"y", "%", "2", "0", "z">>, <<".", ".">>,
             <<"%", "2", "E", "%", "2", "E">>, <<>>, <<"%", "2", "F", "x">>}

FileNames == {<<"x">>, <<"y", "%", "2", "0", "z">>}

Roots == {<<"o">>, <<".">>, <<"o", "%", "2", "E">>}

\* the listing names one more segment of the path
ExtendPath ==
    /\ qdest = NoDest
    /\ Len(Split(qpath)) <= MaxSegments
    /\ \E seg \in Segments : qpath' = qpath \o <<"/">> \o seg
    /\ UNCHANGED <<qroot, qdest>>

\* get_file_lists computes x['dest'] for a file of that path
ComputeDest ==
    /\ qdest = NoDest
    /\ \E name \in FileNames :
        LET comps == Split(qpath) IN comps[Len(comps)] = name
    /\ qdest' = Dest(qroot, qpath)
    /\ UNCHANGED <<qpath, qroot>>

----------------------------------------------------------------------------
(* The share served by the remote host *)

LEN_PATH_PREF == 18

\* '/public.php/webdav'
PathPref == <<"/", "p", "u", "b", "l", "i", "c", ".", "p", "h", "p",
              "/", "w", "e", "b", "d", "a", "v">>

NoLen == -1

NoHref == <<"<no href>">>

\* the directory k levels below the share's root
RECURSIVE DirPath(_)
DirPath(k) == IF k = 0 THEN <<"/">> ELSE DirPath(k - 1) \o <<"s", "/">>

EmptyDirPath == <<"/", "t", "/">>

FileName(k) == IF k % 2 = 0 THEN <<"x">> ELSE <<"y", "%", "2", "0", "z">>

\* the file held by the directory at level k, and its size in bytes
FilePath(k) == DirPath(k) \o FileName(k)

FileSize(k) == k % (MaxSize + 1)

Levels(t) == 0..t.depth

SizeOf(t, path) == FileSize(CHOOSE k \in Levels(t) : FilePath(k) = path)

Digit(n) == CASE n = 0 -> "0" [] n = 1 -> "1" [] n = 2 -> "2" [] n = 3 -> "3"
              [] n = 4 -> "4" [] n = 5 -> "5" [] n = 6 -> "6" [] n = 7 -> "7"
              [] n = 8 -> "8" [] n = 9 -> "9"

\* the decimal text of n, as the server writes d:getcontentlength
RECURSIVE Decimal(_)
Decimal(n) == IF n < 10 THEN <<Digit(n)>> ELSE Append(Decimal(n \div 10), Digit(n % 10))

\* one d:response element: its d:href and the text of d:getcontentlength
\* (empty for a collection)
Response(path, length) ==
    [href |-> PathPref \o path,
     contentlength |-> IF length = NoLen THEN <<>> ELSE Decimal(length)]

\* the d:response elements for directory dir: the directory itself first,
\* then its children
Entries(t, dir) ==
    IF dir = EmptyDirPath THEN <<Response(dir, NoLen)>>
    ELSE LET k == CHOOSE l \in Levels(t) : DirPath(l) = dir IN
         LET sub == IF k < t.depth THEN <<Response(DirPath(k + 1), NoLen)>> ELSE <<>>
             file == <<Response(FilePath(k), FileSize(k))>>
         IN  <<Response(dir, NoLen)>>
             \o (IF t.shape = "file first" THEN file \o sub ELSE sub \o file)
             \o (IF k = 0 /\ t.shape = "empty directory"
                 THEN <<Response(EmptyDirPath, NoLen)>> ELSE <<>>)

\* a well-formed multi-status body with these elements
Body(entries) == [wellformed |-> TRUE, entries |-> entries]

\* a body that is not well-formed XML
Malformed == [wellformed |-> FALSE, entries |-> <<>>]

\* the body for dir, its last d:response element having no d:href
BodyWithoutHref(t, dir) ==
    LET b == Entries(t, dir) IN
    Body([i \in 1..Len(b) |-> IF i = Len(b) THEN [b[i] EXCEPT !.href = NoHref] ELSE b[i]])

ErrorStatuses == {200, 404}

\* what the host may answer to PROPFIND on dir
Answers(t, dir) ==
    {[status |-> CODE_SUCCESS, body |-> Body(Entries(t, dir))],
     [status |-> CODE_SUCCESS, body |-> Malformed],
     [status |-> CODE_SUCCESS, body |-> BodyWithoutHref(t, dir)]}
    \cup {[status |-> st, body |-> Malformed] : st \in ErrorStatuses}

----------------------------------------------------------------------------
(* Exceptions *)

NoErr == [cls |-> "none", cond |-> "none"]

Raise(cls, cond) == [cls |-> cls, cond |-> cond]

\* list_dir: raise RuntimeError(f'Unexpected response from {url}...')
StatusError == Raise("RuntimeError", "listing status")

\* minidom.parseString on a body that is not well-formed
MalformedError == Raise("xml.parsers.expat.ExpatError", "malformed body")

\* response.getElementsByTagName('d:href')[0] on an entry without d:href
NoHrefError == Raise("IndexError", "entry without href")

\* download_file: raise RuntimeError(f"Could not download file: {url}")
ByteCountError == Raise("RuntimeError", "byte count")

----------------------------------------------------------------------------
(* parse_propfind_response *)

DigitVal(c) == CHOOSE n \in 0..9 : Digit(n) = c

\* int(text)
RECURSIVE ParseInt(_)
ParseInt(txt) ==
    IF Len(txt) = 1 THEN DigitVal(txt[1])
    ELSE 10 * ParseInt(SubSeq(txt, 1, Len(txt) - 1)) + DigitVal(txt[Len(txt)])

ParseItem(r) ==
    [path |-> SubSeq(r.href, LEN_PATH_PREF + 1, Len(r.href)),
     contentlength |-> IF r.contentlength = <<>> THEN NoLen ELSE ParseInt(r.contentlength)]

\* [raised, items]: the exception raised, or the items in document order
ParsePropfindResponse(body) ==
    IF ~body.wellformed THEN [raised |-> MalformedError, items |-> <<>>]
    ELSE IF \E i \in 1..Len(body.entries) : body.entries[i].href = NoHref
         THEN [raised |-> NoHrefError, items |-> <<>>]
    ELSE [raised |-> NoErr,
          items |-> [i \in 1..Len(body.entries) |-> ParseItem(body.entries[i])]]

----------------------------------------------------------------------------
(* list_dir and walk_dir *)

\* faulty variant: the status of the answer is not looked at
ListDirMutAnyStatus(resp) ==
    LET parsed == ParsePropfindResponse(resp.body) IN
    [raised |-> parsed.raised, items |-> SubSeq(parsed.items, 2, Len(parsed.items))]

\* list_dir on an answer: [raised, items]; the first element is the listed
\* directory itself and is skipped
ListDir(resp) ==
    IF resp.status # CODE_SUCCESS THEN [raised |-> StatusError, items |-> <<>>]
    ELSE LET parsed == ParsePropfindResponse(resp.body) IN
         [raised |-> parsed.raised, items |-> SubSeq(parsed.items, 2, Len(parsed.items))]

Frame(items) == [items |-> items, files |-> <<>>]

\* faulty variant: a directory's own entry is appended together with the
\* files found in it
RECURSIVE RunOnMutKeepDirs(_)
RunOnMutKeepDirs(st) ==
    LET n == Len(st)
        top == st[n]
    IN  IF top.items = <<>> THEN
            IF n = 1 THEN st
            ELSE RunOnMutKeepDirs(
                    [SubSeq(st, 1, n - 1) EXCEPT
                        ![n - 1].files = @ \o <<Head(st[n - 1].items)>> \o top.files,
                        ![n - 1].items = Tail(@)])
        ELSE IF EndsWithSlash(Head(top.items).path) THEN st
        ELSE RunOnMutKeepDirs([st EXCEPT ![n].files = Append(@, Head(top.items)),
                                          ![n].items = Tail(@)])

\* walk_dir between two requests: the loop of the innermost frame runs on,
\* appending files, until its next item is a directory (the next request) or
\* it returns its files to its caller, which then runs on the same way; the
\* outermost frame stays, holding the result
RECURSIVE RunOn(_)
RunOn(st) ==
    LET n == Len(st)
        top == st[n]
    IN  IF top.items = <<>> THEN
            IF n = 1 THEN st
            ELSE RunOn([SubSeq(st, 1, n - 1) EXCEPT
                            ![n - 1].files = @ \o top.files,
                            ![n - 1].items = Tail(@)])
        ELSE IF EndsWithSlash(Head(top.items).path) THEN st
        ELSE RunOn([st EXCEPT ![n].files = Append(@, Head(top.items)),
                              ![n].items = Tail(@)])

\* the walk has returned to main's call
Walked(st) == Len(st) = 1 /\ st[1].items = <<>>

\* the directory the next request lists
NextDir(st) == IF st = <<>> THEN DirPath(0) ELSE Head(st[Len(st)].items).path

----------------------------------------------------------------------------
(* glob_filter, check_dir_not_empty, check_files, get_file_lists *)

NoSize == -1

NoGlob == <<>>

\* fnmatch.fnmatch for patterns of literals, '*' and '?'
RECURSIVE Fnmatch(_, _)
Fnmatch(name, pat) ==
    IF pat = <<>> THEN name = <<>>
    ELSE IF pat[1] = "*" THEN
        \/ Fnmatch(name, Tail(pat))
        \/ name # <<>> /\ Fnmatch(Tail(name), pat)
    ELSE IF pat[1] = "?" THEN name # <<>> /\ Fnmatch(Tail(name), Tail(pat))
    ELSE name # <<>> /\ name[1] = pat[1] /\ Fnmatch(Tail(name), Tail(pat))

GlobFilter(path, globs) == \E i \in 1..Len(globs) : Fnmatch(path, globs[i])

\* os.path.isdir(path) and os.listdir(path)
CheckDirNotEmpty(path, files, other) ==
    \/ other
    \/ \E d \in DOMAIN files : Inside(path, d)

\* sorted(..., key=lambda x: x['path']): stable insertion by path
RECURSIVE Sorted(_)
Sorted(xs) ==
    IF xs = <<>> THEN <<>>
    ELSE LET rest == Sorted(SubSeq(xs, 1, Len(xs) - 1))
             x == xs[Len(xs)]
             k == Cardinality({i \in 1..Len(rest) : ~StrLess(x.path, rest[i].path)})
         IN  SubSeq(rest, 1, k) \o <<x>> \o SubSeq(rest, k + 1, Len(rest))

\* os.path.isfile(path)
IsFile(files, path) == path \in DOMAIN files

\* faulty variant: the sizes are not compared
BucketMutIgnoreSize(files, x) ==
    IF IsFile(files, x.dest) THEN "existing" ELSE "new"

\* the bucket check_files puts x in
Bucket(files, x) ==
    IF IsFile(files, x.dest)
    THEN IF files[x.dest] = x.contentlength THEN "existing" ELSE "mismatched"
    ELSE "new"

\* x['filesize'] = os.path.getsize(x['dest']), for a file that is there
Probe(files, x) ==
    IF IsFile(files, x.dest) THEN [x EXCEPT !.filesize = files[x.dest]] ELSE x

SelectBucket(files, xs, b) ==
    LET probed == [i \in 1..Len(xs) |-> Probe(files, xs[i])] IN
    SelectSeq(probed, LAMBDA x : Bucket(files, x) = b)

CheckFiles(files, xs) ==
    [new |-> SelectBucket(files, xs, "new"),
     mismatched |-> SelectBucket(files, xs, "mismatched"),
     existing |-> SelectBucket(files, xs, "existing")]

EmptyPlan == [new |-> <<>>, mismatched |-> <<>>, existing |-> <<>>]

\* get_file_lists, after walk_dir returned walked
GetFileLists(walked, root, globs, files, other) ==
    LET sorted == Sorted(walked)
        dests == [i \in 1..Len(sorted) |->
                    [path |-> sorted[i].path,
                     contentlength |-> sorted[i].contentlength,
                     dest |-> Dest(root, sorted[i].path),
                     filesize |-> NoSize]]
        kept == IF globs # NoGlob
                THEN SelectSeq(dests, LAMBDA x : GlobFilter(x.dest, globs))
                ELSE dests
    IN  IF CheckDirNotEmpty(root, files, other)
        THEN CheckFiles(files, kept)
        ELSE [new |-> kept, mismatched |-> <<>>, existing |-> <<>>]

\* faulty variant: the existing files are downloaded too
DownloadOrderMutAll(p) == p.mismatched \o p.new \o p.existing

\* itertools.chain(mismatched, new_files)
DownloadOrder(p) == p.mismatched \o p.new

----------------------------------------------------------------------------
(* download_file *)

NoHeader == -1

\* int(response.headers.get("content-length", 0))
TotalSize(hdr) == IF hdr = NoHeader THEN 0 ELSE hdr

\* if total_size != 0 and progress_bar.n != total_size: raise RuntimeError
IntegrityFails(total, written) == total # 0 /\ written # total

\* open(path_out, "wb") and the chunks written to it
Written(files, dest, written) ==
    [d \in DOMAIN files \cup {dest} |-> IF d = dest THEN written ELSE files[d]]

----------------------------------------------------------------------------
(* query_yes_no *)

Choices == {"", "y", "ye", "yes", "n", "no", "maybe"}

Valid(choice) == choice \in {"yes", "y", "ye", "no", "n"}

ValidValue(choice) == choice \in {"yes", "y", "ye"}

----------------------------------------------------------------------------
(* main *)

Globs == {NoGlob,
          <<(<<"*", "x">>)>>,
          <<(<<"*", "z">>), (<<"*", "/", "?">>)>>}

Outputs == {<<"o">>, <<"o", "%", "2", "E">>}

\* in a directory the subdirectory is listed before the file, or after it,
\* or the root also holds an empty directory
Shapes == {"directory first", "file first", "empty directory"}

Trees == [depth : 0..MaxDepth, shape : Shapes, lengths : BOOLEAN]

\* the local copies a share's files would have
Dests(t, root) == {Dest(root, FilePath(k)) : k \in Levels(t)}

Init ==
    /\ tree \in Trees
    /\ output \in Outputs
    /\ extra \in BOOLEAN
    /\ fs \in {[d \in {} |-> 0], [d \in Dests(tree, output) |-> MaxSize]}
    /\ fs0 = fs
    /\ args = [resume |-> FALSE, yes |-> FALSE, glob |-> NoGlob]
    /\ pc = "idle"
    /\ stack = <<>>
    /\ requests = <<>>
    /\ plan = EmptyPlan
    /\ idx = 0
    /\ attempted = <<>>
    /\ err = NoErr
    /\ out = "none"
    /\ errlog = {}
    /\ qpath = <<>>
    /\ qroot = <<"o">>
    /\ qdest = NoDest

\* faulty variant: the exception is reported and the run goes on
FailsMutGoesOn(e) ==
    /\ err' = e
    /\ out' = "ERROR:"
    /\ UNCHANGED <<pc, stack>>

\* the run ends: the exception e reaches the handler of __main__
Fails(e) ==
    /\ err' = e
    /\ out' = "ERROR:"
    /\ pc' = "exit"
    /\ stack' = <<>>

\* main returns, having printed message
Returns(message) ==
    /\ out' = message
    /\ pc' = "exit"

\* faulty variant: the output directory is not checked
RefusesMutNever(a) == FALSE

\* check_dir_not_empty(args.output) and (not args.resume)

Refuses(a) == CheckDirNotEmpty(output, fs, extra) /\ ~a.resume

\* a process starts: parse_args and the check of the output directory
Start ==
    /\ pc \in {"idle", "exit"}
    /\ \E a \in [resume : BOOLEAN, yes : BOOLEAN, glob : Globs] :
        /\ args' = a
        /\ IF Refuses(a)
           THEN Returns("Output dir is not empty.")
           ELSE pc' = "walk" /\ out' = "Reading share contents."
    /\ fs0' = fs
    /\ stack' = <<>>
    /\ requests' = <<>>
    /\ plan' = EmptyPlan
    /\ idx' = 0
    /\ attempted' = <<>>
    /\ err' = NoErr
    /\ UNCHANGED <<tree, output, fs, extra>>

\* one PROPFIND of the walk and what walk_dir does with its answer
Propfind ==
    /\ pc = "walk"
    /\ ~(stack # <<>> /\ Walked(stack))
    /\ \E resp \in Answers(tree, NextDir(stack)) :
        LET listed == ListDir(resp) IN
        /\ requests' = Append(requests, [path |-> NextDir(stack), status |-> resp.status])
        /\ IF listed.raised # NoErr
           THEN Fails(listed.raised)
           ELSE /\ stack' = RunOn(Append(stack, Frame(listed.items)))
                /\ UNCHANGED <<err, out, pc>>
    /\ UNCHANGED <<tree, output, fs, extra, args, plan, idx, attempted, fs0>>

\* get_file_lists after the walk, and main up to the confirmation
Reconcile ==
    /\ pc = "walk"
    /\ stack # <<>> /\ Walked(stack)
    /\ LET p == GetFileLists(stack[1].files, output, args.glob, fs, extra) IN
        /\ plan' = p
        /\ IF Len(p.new) + Len(p.mismatched) = 0
           THEN Returns("Nothing to download. Exiting.")
           ELSE /\ pc' = IF args.yes THEN "download" ELSE "confirm"
                /\ out' = "will be downloaded"
    /\ stack' = <<>>
    /\ UNCHANGED <<tree, output, fs, extra, args, requests, idx, attempted, err, fs0>>

\* query_yes_no('Proceed ([y]/n)?', default="yes") reads one line
Confirm ==
    /\ pc = "confirm"
    /\ \E choice \in Choices :
        IF choice = "" \/ (Valid(choice) /\ ValidValue(choice))
        THEN pc' = "download" /\ out' = "Proceed"
        ELSE IF Valid(choice)
        THEN Returns("Aborted.")
        ELSE pc' = pc /\ out' = "Please respond with 'yes' or 'no'"
    /\ UNCHANGED <<tree, output, fs, extra, args, stack, requests, plan, idx,
                   attempted, err, fs0>>

\* one turn of main's loop: download_file on the next selected file; the
\* host sends written bytes of it before the stream ends
DownloadFile ==
    /\ pc = "download"
    /\ idx < Len(DownloadOrder(plan))
    /\ LET x == DownloadOrder(plan)[idx + 1]
           size == SizeOf(tree, x.path)
           total == TotalSize(IF tree.lengths THEN size ELSE NoHeader)
       IN  \E written \in 0..size :
            /\ fs' = Written(fs, x.dest, written)
            /\ attempted' = Append(attempted,
                    [path |-> x.path, dest |-> x.dest, total |-> total,
                     written |-> written,
                     raised |-> IntegrityFails(total, written)])
            /\ IF IntegrityFails(total, written)
               THEN Fails(ByteCountError) /\ UNCHANGED idx
               ELSE /\ idx' = idx + 1
                    /\ IF idx + 1 = Len(DownloadOrder(plan))
                       THEN Returns("")
                       ELSE UNCHANGED <<pc, out>>
                    /\ UNCHANGED <<err, stack>>
    /\ UNCHANGED <<tree, output, extra, args, requests, plan, fs0>>

\* the variables that the runs leave alone
Apart == UNCHANGED <<errlog, qpath, qroot, qdest>>

Next ==
    \/ Start /\ Apart
    \/ Propfind /\ Apart
    \/ Reconcile /\ Apart
    \/ Confirm /\ Apart
    \/ DownloadFile /\ Apart

Spec == Init /\ [][Next]_vars

\* the runs, with the exceptions that reached the handler collected
Logged ==
    /\ errlog' = errlog \cup (IF err' # NoErr THEN {err'} ELSE {})
    /\ UNCHANGED <<qpath, qroot, qdest>>

LoggedNext ==
    \/ Start /\ Logged
    \/ Propfind /\ Logged
    \/ Reconcile /\ Logged
    \/ Confirm /\ Logged
    \/ DownloadFile /\ Logged

InitErrors == Init /\ tree.shape = "file first" /\ output = <<"o">> /\ ~extra

SpecErrors == InitErrors /\ [][LoggedNext]_vars

\* the destination computation applied to remote paths and output roots
InitDest ==
    /\ qroot \in Roots
    /\ qpath = <<>>
    /\ qdest = NoDest
    /\ tree = [depth |-> 0, shape |-> "file first", lengths |-> TRUE]
    /\ output = <<"o">>
    /\ extra = FALSE
    /\ fs = [d \in {} |-> 0]
    /\ fs0 = fs
    /\ args = [resume |-> FALSE, yes |-> FALSE, glob |-> NoGlob]
    /\ pc = "idle"
    /\ stack = <<>>
    /\ requests = <<>>
    /\ plan = EmptyPlan
    /\ idx = 0
    /\ attempted = <<>>
    /\ err = NoErr
    /\ out = "none"
    /\ errlog = {}

NextDest ==
    \/ ExtendPath /\ UNCHANGED <<runvars, errlog>>
    \/ ComputeDest /\ UNCHANGED <<runvars, errlog>>

SpecDest == InitDest /\ [][NextDest]_vars

----------------------------------------------------------------------------
(* Properties *)

\* the files of the share, as a listing reports them
RemoteFiles(t) == [i \in 1..(t.depth + 1) |->
                     [path |-> FilePath(i - 1), contentlength |-> FileSize(i - 1)]]

Range(xs) == {xs[i] : i \in 1..Len(xs)}

Paths(xs) == [i \in 1..Len(xs) |-> xs[i].path]

Count(xs, path) == Cardinality({i \in 1..Len(xs) : xs[i].path = path})

\* what reconciling the share with the present output directory yields
PlanNow == GetFileLists(RemoteFiles(tree), output, args.glob, fs, extra)

\* get_file_lists has returned in this run
Planned ==
    \/ pc \in {"confirm", "download"}
    \/ pc = "exit" /\ out \in {"Nothing to download. Exiting.", "Aborted.", ""}
    \/ attempted # <<>>

\* C1: when every listing of the walk answered 207 with a well-formed body,
\* walk_dir returns exactly the share's files at every depth, each once, and
\* no entry whose path ends in '/'.
C1_WalkReturnsLeaves ==
    (pc = "walk" /\ stack # <<>> /\ Walked(stack)) =>
        LET files == stack[1].files IN
        /\ Range(files) = Range(RemoteFiles(tree))
        /\ \A k \in Levels(tree) : Count(files, FilePath(k)) = 1
        /\ \A i \in 1..Len(files) : ~EndsWithSlash(files[i].path)

C1_Witness ==
    /\ pc = "walk" /\ stack # <<>> /\ Walked(stack)
    /\ tree.depth = MaxDepth /\ tree.shape = "empty directory"
    /\ Len(stack[1].files) = MaxDepth + 1

\* C2: with a non-empty output directory, every file that passes the glob
\* filter is in exactly one bucket: new when no regular file is at its
\* destination, existing when one of equal size is, mismatched with that
\* file's size recorded when one of another size is.
C2_Buckets ==
    (Planned /\ CheckDirNotEmpty(output, fs0, extra)) =>
        /\ \A k \in Levels(tree) :
            LET d == Dest(output, FilePath(k))
                all == plan.new \o plan.mismatched \o plan.existing
            IN  Count(all, FilePath(k)) =
                    IF args.glob = NoGlob
                       \/ \E i \in 1..Len(args.glob) : Fnmatch(d, args.glob[i])
                    THEN 1 ELSE 0
        /\ \A x \in Range(plan.new) : x.dest \notin DOMAIN fs0
        /\ \A x \in Range(plan.existing) :
            /\ x.dest \in DOMAIN fs0
            /\ fs0[x.dest] = x.contentlength
        /\ \A x \in Range(plan.mismatched) :
            /\ x.dest \in DOMAIN fs0
            /\ fs0[x.dest] # x.contentlength
            /\ x.filesize = fs0[x.dest]

C2_Witness ==
    /\ Planned /\ CheckDirNotEmpty(output, fs0, extra)
    /\ plan.new # <<>> /\ plan.mismatched # <<>> /\ plan.existing # <<>>
    /\ args.glob # NoGlob

\* C3: a download whose response advertised a length L # 0 and that stopped
\* after W < L bytes raised the byte-count RuntimeError, left W bytes at the
\* destination, and reconciling again puts the file in mismatched with
\* filesize W.
C3_PartialIsMismatched ==
    \A i \in 1..Len(attempted) :
        LET a == attempted[i] IN
        (a.total # 0 /\ a.written < a.total) =>
            /\ err = ByteCountError
            /\ pc = "exit"
            /\ i = Len(attempted)
            /\ a.dest \in DOMAIN fs /\ fs[a.dest] = a.written
            /\ \E x \in Range(PlanNow.mismatched) :
                x.path = a.path /\ x.filesize = a.written
            /\ Count(PlanNow.new, a.path) = 0
            /\ Count(PlanNow.existing, a.path) = 0

C3_Witness ==
    \E i \in 1..Len(attempted) :
        /\ attempted[i].total # 0
        /\ 0 < attempted[i].written
        /\ attempted[i].written < attempted[i].total

\* C4: a file whose download ended without an exception, the response having
\* advertised the file's size, is classified existing (not new, not
\* mismatched) when the share is reconciled again with the same output root.
C4_RoundTrip ==
    \A i \in 1..Len(attempted) :
        LET a == attempted[i] IN
        (tree.lengths /\ ~a.raised) =>
            /\ Count(PlanNow.existing, a.path) = 1
            /\ Count(PlanNow.new, a.path) = 0
            /\ Count(PlanNow.mismatched, a.path) = 0

C4_Witness ==
    /\ pc = "exit" /\ out = "" /\ tree.lengths
    /\ Len(attempted) > 1
    /\ \E i \in 1..Len(attempted) : attempted[i].total > 1

\* The two statements above hold when the output root has no percent
\* escape, which get_file_lists would decode along with the remote path.
PlainRoot == \A i \in 1..Len(output) : output[i] # "%"

PartialIsMismatchedUnderPlainRoot == PlainRoot => C3_PartialIsMismatched

RoundTripUnderPlainRoot == PlainRoot => C4_RoundTrip

\* C5: when a download fails the run is over: the failed call is the last
\* one of the run, it was made once, the calls before it are the files that
\* precede it in the download order and their files are on disk as written,
\* and no later file is attempted.
C5_FailureAborts ==
    (\E i \in 1..Len(attempted) : attempted[i].raised) =>
        LET k == Len(attempted)
            order == plan.mismatched \o plan.new
        IN  /\ attempted[k].raised
            /\ \A j \in 1..(k - 1) : ~attempted[j].raised
            /\ k <= Len(order)
            /\ Paths(attempted) = SubSeq(Paths(order), 1, k)
            /\ Count(attempted, attempted[k].path) = 1
            /\ \A j \in 1..(k - 1) :
                /\ attempted[j].dest \in DOMAIN fs
                /\ fs[attempted[j].dest] = attempted[j].written
            /\ pc = "exit"
            /\ err = ByteCountError
            /\ ~ENABLED DownloadFile

C5_Witness ==
    /\ Len(attempted) >= 2
    /\ attempted[Len(attempted)].raised
    /\ Len(attempted) < Len(plan.mismatched) + Len(plan.new)
    /\ attempted[1].written > 0

\* C6: when main's loop has run to its end every file of new and mismatched
\* was attempted exactly once; until then the loop can always take its next
\* turn; and a file classified existing is never attempted, nor is its local
\* copy changed.
C6_SelectedOnceExistingNever ==
    /\ (pc = "exit" /\ out = "") =>
        /\ \A x \in Range(plan.new) \cup Range(plan.mismatched) :
            Count(attempted, x.path) = 1
        /\ Len(attempted) = Len(plan.new) + Len(plan.mismatched)
    /\ (pc = "download") => ENABLED DownloadFile
    /\ \A i \in 1..Len(attempted) :
        /\ Count(attempted, attempted[i].path) = 1
        /\ Count(plan.new \o plan.mismatched, attempted[i].path) = 1
    /\ \A x \in Range(plan.existing) :
        /\ Count(attempted, x.path) = 0
        /\ \A i \in 1..Len(attempted) : attempted[i].dest # x.dest
        /\ x.dest \in DOMAIN fs /\ fs[x.dest] = fs0[x.dest]

C6_Witness ==
    /\ pc = "exit" /\ out = ""
    /\ plan.existing # <<>> /\ plan.new # <<>> /\ plan.mismatched # <<>>

\* C7: a listing answered with a status other than 207 ends the walk at
\* once with the listing RuntimeError: it is the last request of the run, no
\* frame and no file list is left, nothing is planned, no download is made
\* and the local files are untouched.
C7_ListingErrorStops ==
    \A i \in 1..Len(requests) :
        (requests[i].status # CODE_SUCCESS) =>
            /\ i = Len(requests)
            /\ err = StatusError
            /\ pc = "exit"
            /\ stack = <<>>
            /\ plan = EmptyPlan
            /\ attempted = <<>>
            /\ fs = fs0
            /\ ~ENABLED Propfind
            /\ ~ENABLED Reconcile
            /\ ~ENABLED DownloadFile

C7_Witness ==
    /\ Len(requests) = MaxDepth + 1
    /\ requests[Len(requests)].status = 404
    /\ fs # <<>>

\* C10: a run started without --resume on a non-empty output directory
\* returns with the message at once: no request is sent, no file is created
\* or written; so a download is made only in a run that found the output
\* directory absent or empty, or that was given --resume.
C10_RefusesNonEmpty ==
    /\ (pc # "idle" /\ CheckDirNotEmpty(output, fs0, extra) /\ ~args.resume) =>
        /\ pc = "exit"
        /\ out = "Output dir is not empty."
        /\ requests = <<>>
        /\ attempted = <<>>
        /\ plan = EmptyPlan
        /\ fs = fs0
    /\ (attempted # <<>>) => (args.resume \/ ~CheckDirNotEmpty(output, fs0, extra))

C10_Witness ==
    /\ pc = "exit" /\ out = "Output dir is not empty."
    /\ ~extra
    /\ \E d \in DOMAIN fs : fs[d] < MaxSize

----------------------------------------------------------------------------
(* Properties of the destination computation *)

\* the path without one leading separator
StripLeadingSep(p) == IF StartsWithSlash(p) THEN DropFirst(p) ELSE p

\* C8: the destination is the output root joined with the percent-decoded
\* remote path stripped of its leading separator, and lies under the output
\* root.
C8_DestUnderRoot ==
    (qdest # NoDest) =>
        /\ qdest = Join(qroot, StripLeadingSep(Unquote(qpath)))
        /\ Inside(qroot, qdest)

----------------------------------------------------------------------------
(* Properties of the exceptions *)

\* the error kind the design names for a fatal condition
Kind(cond) ==
    CASE cond = "listing status" -> "ProtocolError"
      [] cond \in {"malformed body", "entry without href"} -> "ParseError"
      [] cond = "byte count" -> "TransferError"

\* C9: exceptions raised for fatal conditions of different kinds are of
\* different classes, so that the kinds can be told apart before the
\* top-level handler prints them.
C9_KindsDistinct ==
    \A e1, e2 \in errlog :
        Kind(e1.cond) # Kind(e2.cond) => e1.cls # e2.cls

====
